---- MODULE Spec2Model ----
(***************************************************************************)
(* A model of bidderd, a fixed-price RTB bidder: the auction handler       *)
(* (fastHandleAuctions, externalIdsFromRequest, emptyResponseWithOneSeat,  *)
(* Agent.DoBid), the boot loop of main (RegisterAgent, StartPacer), the     *)
(* pacer goroutine of every agent, and the shutdown on a signal (cleanup,  *)
(* UnregisterAgent, the wait group of main).                               *)
(*                                                                         *)
(* Conventions.  A decoded JSON value (Go interface{}) is a record tagged  *)
(* by "kind": nil, num, list or map.  A JSON number is a float64; it is    *)
(* kept in tenths (15 stands for 1.5) so that int(float64) truncates.      *)
(* Go slices are 0-based, TLA+ sequences 1-based: s[i] in Go is s[i+1].    *)
(***************************************************************************)
EXTENDS Integers, Sequences, FiniteSets, TLC

VARIABLES
    agents,     \* main.go: agents []Agent, as LoadAgentsFromFile returned it
    rounds,     \* one record per fastHandleAuctions invocation (its locals)
    placed,     \* history: per round, who placed each bid of the seat
    crashed,    \* an unrecovered panic has ended the process
    statBids,   \* number of BidIncoming() events handed to the stats
    mainPc,     \* position of main
    bootIdx,    \* index of the boot loop of main over agents
    loopAgent,  \* the loop variable "agent" of main's boot loop (a copy)
    acs,        \* the agent-configuration service: names it holds
    acsCalls,   \* history: register attempts per agent
    pacers,     \* one record per pacer goroutine started by StartPacer
    banker,     \* balance reports the banker has received, per agent
    shut,       \* the signal, the goroutine running cleanup, the wait group
    pstop       \* the pacer channels: StopPacer calls made, channel closed

vars == <<agents, rounds, placed, crashed, statBids, mainPc, bootIdx,
          loopAgent, acs, acsCalls, pacers, banker, shut, pstop>>

auctionVars == <<rounds, placed, statBids>>
bootVars    == <<mainPc, bootIdx, loopAgent, acs, acsCalls>>
pacerVars   == <<pacers, banker>>
shutVars    == <<shut, pstop>>

\* the process runs: no panic has ended it and main has not returned
Alive == ~crashed /\ shut.exit = "none"

(***************************************************************************)
(* Bounds of the model.                                                    *)
(***************************************************************************)
MaxImps   == 2    \* impressions in one bid request
MaxRounds == 2    \* auction requests handled concurrently
MaxTicks  == 2    \* ticks one ticker delivers
MaxRand   == 2    \* raw values drawn for rand.Intn
MaxStops  == 2    \* StopPacer calls made on one agent

(***************************************************************************)
(* strconv.Itoa                                                            *)
(***************************************************************************)
Digit(d) == CASE d = 0 -> "0" [] d = 1 -> "1" [] d = 2 -> "2" [] d = 3 -> "3"
              [] d = 4 -> "4" [] d = 5 -> "5" [] d = 6 -> "6" [] d = 7 -> "7"
              [] d = 8 -> "8" [] d = 9 -> "9"

RECURSIVE Utoa(_)
Utoa(n) == IF n < 10 THEN Digit(n) ELSE Utoa(n \div 10) \o Digit(n % 10)

Itoa(n) == IF n < 0 THEN "-" \o Utoa(-n) ELSE Utoa(n)

(***************************************************************************)
(* Decoded JSON values and the Go conversions applied to them.             *)
(***************************************************************************)
JNil     == [kind |-> "nil"]
JNum(t)  == [kind |-> "num", val |-> t]
JList(s) == [kind |-> "list", items |-> s]
JMap(f)  == [kind |-> "map", entries |-> f]

\* a whole number n as a float64
F(n) == JNum(10 * n)

\* int(x) for a float64 x: truncation towards zero
FloatToInt(t) == IF t >= 0 THEN t \div 10 ELSE -((-t) \div 10)

\* m[k] on a Go map: the zero value (nil) when the key is absent
MapGet(f, k) == IF k \in DOMAIN f THEN f[k] ELSE JNil

\* rand.Intn(n) for n > 0, from the raw value the generator produced
RandIntn(n, raw) == raw % n

(***************************************************************************)
(* The configured agents (agents.json).                                    *)
(***************************************************************************)
Creative(id) == [Id |-> id]

NewAgent(name, extId, creatives, price) ==
    [Name |-> name,
     Config |-> [ExternalId |-> extId, Creatives |-> creatives],
     Price |-> price, Period |-> 1, Balance |-> 100,
     registered |-> FALSE, pacer |-> 0, bidId |-> 0]

AgentConfigs ==
    { << NewAgent("a1", 42, <<Creative(5), Creative(7)>>, 15),
         NewAgent("a2", 99, <<Creative(9)>>, 20) >> }

AgentIdx == 1..2

(***************************************************************************)
(* Bid requests.                                                           *)
(***************************************************************************)
Ext(extIds, crIds) == ("external-ids" :> extIds) @@ ("creative-ids" :> crIds)

Imp(id, ext) == [ID |-> id, Ext |-> ext]

ImpPool ==
    { \* the scenario of the specification: agent 42 may show creative 0
      Imp("1", Ext(JList(<<F(42)>>), JMap("42" :> JList(<<F(0)>>)))),
      \* two eligible ids: a rotation between indices 0 and 1.5 for 42,
      \* between 0 and an index nobody has a creative for (5) for 99
      Imp("2", Ext(JList(<<F(42), F(99)>>),
                   JMap(("42" :> JList(<<F(0), JNum(15)>>))
                        @@ ("99" :> JList(<<F(0), F(5)>>))))),
      \* nobody configured is eligible
      Imp("3", Ext(JList(<<F(7)>>), JMap("7" :> JList(<<F(0)>>)))),
      \* no "external-ids" at all
      Imp("4", ("creative-ids" :> JMap("42" :> JList(<<F(0)>>)))) }

RECURSIVE SeqsUpTo(_, _)
SeqsUpTo(S, n) ==
    IF n = 0 THEN { << >> }
    ELSE LET shorter == SeqsUpTo(S, n - 1)
         IN  shorter \cup { Append(s, x) : s \in shorter, x \in S }

\* the exchange numbers its requests; requests that differ in length differ in id
Requests ==
    { [ID |-> "r" \o Itoa(Len(imps)), Imp |-> imps] : imps \in SeqsUpTo(ImpPool, MaxImps) }

\* ctx.PostBody(): bytes that do not decode, the JSON text null, a request
Bodies == { [kind |-> "garbage"], [kind |-> "null"] }
          \cup { [kind |-> "request", req |-> q] : q \in Requests }

NilReq == [ID |-> "", Imp |-> << >>]

\* a decoder that reports no error: whatever does not decode leaves req nil
UnmarshalNoError(body) ==
    [err |-> FALSE,
     nil |-> body.kind # "request",
     req |-> IF body.kind = "request" THEN body.req ELSE NilReq]

\* json.Unmarshal(ctx.PostBody(), &req): [err, nil, req]; req stays a nil
\* pointer when the body is the JSON text null
Unmarshal(body) ==
    [err |-> body.kind = "garbage",
     nil |-> body.kind # "request",
     req |-> IF body.kind = "request" THEN body.req ELSE NilReq]

(***************************************************************************)
(* externalIdsFromRequest: the creative index of one request.  The result  *)
(* is [fault, ids]; fault stands for the panic of a failed type assertion. *)
(* ids is the Go map: a function on the keys <<ImpId, ExtId>> it holds.    *)
(***************************************************************************)
EmptyIds == [k \in {} |-> JNil]

Faulted(acc) == [acc EXCEPT !.fault = TRUE]

\* one iteration of the inner loop: lines 188-190
IndexExtId(imp, extID, acc) ==
    IF extID.kind # "num" THEN Faulted(acc)
    ELSE LET id  == FloatToInt(extID.val)
             key == <<imp.ID, id>>
             cm  == MapGet(imp.Ext, "creative-ids")
         IN  IF cm.kind # "map" THEN Faulted(acc)
             ELSE LET creatives == MapGet(cm.entries, Itoa(id))
                  IN  IF creatives.kind = "nil" THEN Faulted(acc)
                      ELSE [acc EXCEPT !.ids = (key :> creatives) @@ @]

RECURSIVE IndexExtIds(_, _, _, _)
IndexExtIds(imp, items, j, acc) ==
    IF acc.fault \/ j > Len(items) THEN acc
    ELSE IndexExtIds(imp, items, j + 1, IndexExtId(imp, items[j], acc))

\* one iteration of the outer loop: lines 186-191
IndexImp(imp, acc) ==
    LET el == MapGet(imp.Ext, "external-ids")
    IN  IF el.kind # "list" THEN Faulted(acc)
        ELSE IndexExtIds(imp, el.items, 1, acc)

RECURSIVE IndexImps(_, _, _)
IndexImps(imps, k, acc) ==
    IF acc.fault \/ k > Len(imps) THEN acc
    ELSE IndexImps(imps, k + 1, IndexImp(imps[k], acc))

externalIdsFromRequest(req) ==
    IndexImps(req.Imp, 1, [fault |-> FALSE, ids |-> EmptyIds])

(***************************************************************************)
(* emptyResponseWithOneSeat                                                *)
(***************************************************************************)
\* a response that was not given the id of the request
emptyResponseWithoutId(req) ==
    [ID |-> "", SeatBid |-> << [Bid |-> << >>] >>]

emptyResponseWithOneSeat(req) ==
    [ID |-> req.ID, SeatBid |-> << [Bid |-> << >>] >>]

(***************************************************************************)
(* Agent.DoBid.  rnd[k] is the raw random value drawn at impression k.     *)
(* The accumulator holds the bids of the seat, the bidId of the receiver,  *)
(* the history of the impressions this call bid on, and the fault flag.    *)
(***************************************************************************)
\* agent.Config.Creatives[cridx] does not panic
InRange(creatives, cridx) == cridx >= 0 /\ cridx < Len(creatives)

NewBid(agent, bidId, imp, creative) ==
    [ID |-> Itoa(bidId), ImpID |-> imp.ID, CreativeID |-> Itoa(creative.Id),
     Price |-> agent.Price,
     Ext |-> [priority |-> 10, externalId |-> agent.Config.ExternalId]]

\* the bid is appended twice
AddBidTwice(bids, bid) == Append(Append(bids, bid), bid)

\* the bid is put in front of the seat
AddBidInFront(bids, bid) == <<bid>> \o bids

\* res.SeatBid[0].Bid = append(res.SeatBid[0].Bid, bid)
AddBid(bids, bid) == Append(bids, bid)

\* creativesKey{ImpId: imp.ID, ExtId: agent.Config.ExternalId}
BidKey(agent, imp) == <<imp.ID, agent.Config.ExternalId>>

\* the index counted from the end of the list
CreativeAtFromEnd(creatives, cridx) == creatives[Len(creatives) - cridx]

\* agent.Config.Creatives[cridx], for an index in range
CreativeAt(creatives, cridx) == creatives[cridx + 1]

\* the body of the loop over req.Imp: lines 149-174
BidOnImp(agent, imp, k, ids, raw, acc) ==
    LET key == BidKey(agent, imp)
    IN  IF key \notin DOMAIN ids THEN acc
        ELSE LET creativeList == ids[key]
             IN  IF creativeList.kind # "list" THEN Faulted(acc)
                 ELSE IF Len(creativeList.items) = 0 THEN Faulted(acc)
                 ELSE LET n == RandIntn(Len(creativeList.items), raw)
                          e == creativeList.items[n + 1]
                      IN  IF e.kind # "num" THEN Faulted(acc)
                          ELSE LET cridx == FloatToInt(e.val)
                               IN  IF ~InRange(agent.Config.Creatives, cridx)
                                   THEN Faulted(acc)
                                   ELSE [acc EXCEPT
                                          !.bids = AddBid(@, NewBid(agent, acc.bidId, imp,
                                                     CreativeAt(agent.Config.Creatives, cridx))),
                                          !.bidId = @ + 1,
                                          !.log = AddBid(@, [agent |-> agent.Name, pos |-> k])]

RECURSIVE BidOnImps(_, _, _, _, _, _)
BidOnImps(agent, imps, k, ids, rnd, acc) ==
    IF acc.fault \/ k > Len(imps) THEN acc
    ELSE BidOnImps(agent, imps, k + 1, ids, rnd,
                   BidOnImp(agent, imps[k], k, ids, rnd[k], acc))

\* the value DoBid returns next to res: line 176
PlacedBid(bidsBefore, bidsAfter) == Len(bidsAfter) > 0

\* [fault, res, ok, bidId, log]: bidId is the receiver's counter afterwards;
\* log is the history of the seat: entry k names the agent and the impression
\* (by position in req.Imp) of bid k
DoBid(agent, req, res, ids, rnd, log) ==
    LET acc == BidOnImps(agent, req.Imp, 1, ids, rnd,
                         [bids |-> res.SeatBid[1].Bid, bidId |-> agent.bidId,
                          log |-> log, fault |-> FALSE])
    IN  [fault |-> acc.fault,
         res   |-> [res EXCEPT !.SeatBid[1].Bid = acc.bids],
         ok    |-> PlacedBid(res.SeatBid[1].Bid, acc.bids),
         bidId |-> acc.bidId,
         log   |-> acc.log]

(***************************************************************************)
(* The state.                                                              *)
(***************************************************************************)
RoundIds == 1..MaxRounds

NoBody == [kind |-> "none"]
NoRes  == [ID |-> "", SeatBid |-> << >>]

\* the locals of fastHandleAuctions at its entry: lines 164-167
EntryOk == TRUE

EmptyRound ==
    [pc |-> "idle", body |-> NoBody, built |-> FALSE, ids |-> EmptyIds,
     res |-> NoRes, ok |-> EntryOk, tmpOk |-> TRUE, i |-> 1, calls |-> 0,
     status |-> 0, respBody |-> NoBody, headers |-> {}]

NoPacer ==
    [state |-> "none", chan |-> 0, tickBuf |-> 0, fired |-> 0, dropped |-> 0,
     attempts |-> 0, inflight |-> 0, failed |-> 0]

\* main.go:76 and 103: wg.Add(1), wg.Add(3)
WaitGroupAdds == 4

\* no signal yet; main will block in wg.Wait with the counter at 4
NoShutdown ==
    [sig |-> "none", pc |-> "idle", idx |-> 1,
     calls |-> [i \in AgentIdx |-> 0], failed |-> {},
     wg |-> WaitGroupAdds, exit |-> "none"]

\* nobody has called StopPacer; the channels made by StartPacer are open
NoStop == [calls |-> [i \in AgentIdx |-> 0], closed |-> [i \in AgentIdx |-> FALSE]]

\* main has read the configuration and is about to enter its boot loop
Init ==
    /\ agents \in AgentConfigs
    /\ rounds = [r \in RoundIds |-> EmptyRound]
    /\ placed = [r \in RoundIds |-> << >>]
    /\ crashed = FALSE
    /\ statBids = 0
    /\ mainPc = "register"
    /\ bootIdx = 1
    /\ loopAgent = agents[1]
    /\ acs = {}
    /\ acsCalls = [i \in AgentIdx |-> 0]
    /\ pacers = [i \in AgentIdx |-> NoPacer]
    /\ banker = [i \in AgentIdx |-> 0]
    /\ shut = NoShutdown
    /\ pstop = NoStop

(***************************************************************************)
(* fastHandleAuctions, in three steps per request: the entry up to the     *)
(* empty response, one iteration of the loop over agents, the reply.       *)
(***************************************************************************)
\* ok = tmpOk || ok: line 189
FoldOk(tmpOk, ok) == tmpOk \/ ok

\* lines 163-185
HandleParse(r, body) ==
    /\ Alive /\ mainPc = "serving"
    /\ rounds[r].pc = "idle"
    /\ IF r = 1 THEN TRUE ELSE rounds[r - 1].pc # "idle"
    /\ LET u == Unmarshal(body)
       IN  IF u.err
           THEN /\ rounds' = [rounds EXCEPT ![r].pc = "done", ![r].body = body,
                                            ![r].status = 204]
                /\ UNCHANGED crashed
           ELSE IF u.nil
           THEN \* req.Imp on a nil pointer panics in externalIdsFromRequest
                /\ rounds' = [rounds EXCEPT ![r].pc = "panic", ![r].body = body]
                /\ crashed' = TRUE
           ELSE LET idx == externalIdsFromRequest(u.req)
                IN  IF idx.fault
                    THEN /\ rounds' = [rounds EXCEPT ![r].pc = "panic",
                                                     ![r].body = body]
                         /\ crashed' = TRUE
                    ELSE /\ rounds' = [rounds EXCEPT
                                ![r].pc = "bidding", ![r].body = body,
                                ![r].built = TRUE, ![r].ids = idx.ids,
                                ![r].res = emptyResponseWithOneSeat(u.req),
                                ![r].i = 1]
                         /\ UNCHANGED crashed
    /\ UNCHANGED <<agents, placed, statBids, bootVars, pacerVars, shutVars>>

\* lines 187-190, one iteration: agent is a copy of agents[i]
AgentDoBid(r) ==
    /\ Alive
    /\ rounds[r].pc = "bidding"
    /\ rounds[r].i <= Len(agents)
    /\ LET i   == rounds[r].i
           req == rounds[r].body.req
       IN  \E rnd \in [1..Len(req.Imp) -> 0..(MaxRand - 1)] :
             LET out == DoBid(agents[i], req, rounds[r].res, rounds[r].ids,
                              rnd, placed[r])
             IN  /\ placed' = [placed EXCEPT ![r] = out.log]
                 /\ IF out.fault
                    THEN /\ rounds' = [rounds EXCEPT ![r].pc = "panic",
                                         ![r].res = out.res, ![r].calls = @ + 1]
                         /\ crashed' = TRUE
                    ELSE /\ rounds' = [rounds EXCEPT
                                         ![r].res = out.res,
                                         ![r].tmpOk = out.ok,
                                         ![r].ok = FoldOk(out.ok, @),
                                         ![r].calls = @ + 1,
                                         ![r].i = @ + 1]
                         /\ UNCHANGED crashed
    /\ UNCHANGED <<agents, statBids, bootVars, pacerVars, shutVars>>

\* a handler that reports the spend of the round to the banker before replying
HandleRespondReporting(r) ==
    /\ Alive
    /\ rounds[r].pc = "bidding"
    /\ rounds[r].i > Len(agents)
    /\ \A i \in AgentIdx : pacers[i].inflight = 0
    /\ statBids' = statBids + 1
    /\ banker' = [i \in AgentIdx |->
                    IF \E k \in 1..Len(placed[r]) : placed[r][k].agent = agents[i].Name
                    THEN banker[i] + 1 ELSE banker[i]]
    /\ rounds' = [rounds EXCEPT
                    ![r].pc = "done", ![r].status = IF rounds[r].ok THEN 200 ELSE 204]
    /\ UNCHANGED <<agents, placed, crashed, bootVars, pacers, shutVars>>

\* lines 192-205
HandleRespond(r) ==
    /\ Alive
    /\ rounds[r].pc = "bidding"
    /\ rounds[r].i > Len(agents)
    /\ statBids' = statBids + 1
    /\ IF rounds[r].ok
       THEN rounds' = [rounds EXCEPT
                ![r].pc = "done", ![r].status = 200,
                ![r].headers = {<<"Content-type", "application/json">>,
                                <<"x-openrtb-version", "2.1">>},
                ![r].respBody = [kind |-> "json", res |-> rounds[r].res]]
       ELSE rounds' = [rounds EXCEPT ![r].pc = "done", ![r].status = 204]
    /\ UNCHANGED <<agents, placed, crashed, bootVars, pacerVars, shutVars>>

(***************************************************************************)
(* main: the boot loop over agents, lines 86-92.                           *)
(***************************************************************************)
\* a registration failure that ends the process (log.Fatal for log.Printf)
BootRegisterOrDie(sent) ==
    /\ Alive /\ mainPc = "register"
    /\ acsCalls' = [acsCalls EXCEPT ![bootIdx] = @ + 1]
    /\ IF sent
       THEN /\ acs' = acs \cup {loopAgent.Name}
            /\ loopAgent' = [loopAgent EXCEPT !.registered = TRUE]
            /\ UNCHANGED crashed
       ELSE /\ crashed' = TRUE
            /\ UNCHANGED <<acs, loopAgent>>
    /\ mainPc' = "startPacer"
    /\ UNCHANGED <<agents, bootIdx, auctionVars, pacerVars, shutVars>>

\* Agent.RegisterAgent on the loop variable; sent tells whether
\* httpClient.Do returned without an error
BootRegister(sent) ==
    /\ Alive /\ mainPc = "register"
    /\ acsCalls' = [acsCalls EXCEPT ![bootIdx] = @ + 1]
    /\ IF sent
       THEN /\ acs' = acs \cup {loopAgent.Name}
            /\ loopAgent' = [loopAgent EXCEPT !.registered = TRUE]
       ELSE UNCHANGED <<acs, loopAgent>>
    /\ mainPc' = "startPacer"
    /\ UNCHANGED <<agents, bootIdx, crashed, auctionVars, pacerVars, shutVars>>

\* Agent.StartPacer on the loop variable, then the next iteration or,
\* after the last one, StartStatOutput and setupHandlers
BootStartPacer ==
    /\ Alive /\ mainPc = "startPacer"
    /\ pacers' = [pacers EXCEPT ![bootIdx] =
                    [NoPacer EXCEPT !.state = "running", !.chan = bootIdx]]
    /\ IF bootIdx < Len(agents)
       THEN /\ bootIdx' = bootIdx + 1
            /\ loopAgent' = agents[bootIdx + 1]
            /\ mainPc' = "register"
       ELSE /\ loopAgent' = [loopAgent EXCEPT !.pacer = bootIdx]
            /\ mainPc' = "serving"
            /\ UNCHANGED bootIdx
    /\ UNCHANGED <<agents, acs, acsCalls, banker, crashed, auctionVars, shutVars>>

(***************************************************************************)
(* The pacer of agent i: the ticker and the goroutine of StartPacer.       *)
(***************************************************************************)
\* the ticker's period elapses; ticker.C holds one tick, a second is dropped
TickerFire(i) ==
    /\ Alive
    /\ pacers[i].state = "running"
    /\ pacers[i].fired < MaxTicks
    /\ pacers' = [pacers EXCEPT ![i].fired = @ + 1,
                                ![i].tickBuf = 1,
                                ![i].dropped = @ + pacers[i].tickBuf]
    /\ UNCHANGED <<agents, banker, crashed, auctionVars, bootVars, shutVars>>

\* the report is made by the loop itself: no tick is taken while one is out
PacerTickInline(i) ==
    /\ Alive
    /\ pacers[i].state = "running"
    /\ pacers[i].tickBuf = 1
    /\ pacers[i].inflight = 0
    /\ pacers' = [pacers EXCEPT ![i].tickBuf = 0,
                                ![i].attempts = @ + 1,
                                ![i].inflight = @ + 1]
    /\ UNCHANGED <<agents, banker, crashed, auctionVars, bootVars, shutVars>>

\* case <-ticker.C: start the goroutine that reports the balance
PacerTick(i) ==
    /\ Alive
    /\ pacers[i].state = "running"
    /\ pacers[i].tickBuf = 1
    /\ pacers' = [pacers EXCEPT ![i].tickBuf = 0,
                                ![i].attempts = @ + 1,
                                ![i].inflight = @ + 1]
    /\ UNCHANGED <<agents, banker, crashed, auctionVars, bootVars, shutVars>>

\* httpClient.Do of one report returns, with or without an error
ReportReturn(i, err) ==
    /\ Alive
    /\ pacers[i].inflight > 0
    /\ IF err
       THEN /\ pacers' = [pacers EXCEPT ![i].inflight = @ - 1, ![i].failed = @ + 1]
            /\ UNCHANGED banker
       ELSE /\ pacers' = [pacers EXCEPT ![i].inflight = @ - 1]
            /\ banker' = [banker EXCEPT ![i] = @ + 1]
    /\ UNCHANGED <<agents, crashed, auctionVars, bootVars, shutVars>>

\* a StopPacer that does not reach the channel of the running goroutine
StopPacerElsewhere(i) ==
    /\ Alive
    /\ pstop.calls[i] < MaxStops
    /\ pstop' = [pstop EXCEPT !.calls[i] = @ + 1]
    /\ UNCHANGED <<agents, crashed, pacers, banker, shut, auctionVars, bootVars>>

\* Agent.StopPacer on the Agent value whose StartPacer made channel i:
\* close(agent.pacer) panics on a nil and on a closed channel
StopPacer(i) ==
    /\ Alive
    /\ pstop.calls[i] < MaxStops
    /\ IF pacers[i].state = "none" \/ pstop.closed[i]
       THEN /\ pstop' = [pstop EXCEPT !.calls[i] = @ + 1]
            /\ crashed' = TRUE
       ELSE /\ pstop' = [pstop EXCEPT !.calls[i] = @ + 1, !.closed[i] = TRUE]
            /\ UNCHANGED crashed
    /\ UNCHANGED <<agents, pacers, banker, shut, auctionVars, bootVars>>

\* case <-agent.pacer: ticker.Stop() and return
PacerExit(i) ==
    /\ Alive
    /\ pacers[i].state = "running"
    /\ pstop.closed[pacers[i].chan]
    /\ pacers' = [pacers EXCEPT ![i].state = "exited"]
    /\ UNCHANGED <<agents, banker, crashed, pstop, shut, auctionVars, bootVars>>

(***************************************************************************)
(* Shutdown: main.go:105-114 and cleanup, main.go:51-63.                   *)
(***************************************************************************)
\* an interrupt is delivered to the channel c of signal.Notify
Signal ==
    /\ Alive /\ mainPc = "serving"
    /\ shut.sig = "none"
    /\ shut' = [shut EXCEPT !.sig = "pending"]
    /\ UNCHANGED <<agents, crashed, pstop, auctionVars, bootVars, pacerVars>>

\* <-c, then the entry of cleanup up to its loop over agents
CleanupStart ==
    /\ Alive
    /\ shut.sig = "pending"
    /\ shut' = [shut EXCEPT !.sig = "taken", !.pc = "unregister", !.idx = 1]
    /\ UNCHANGED <<agents, crashed, pstop, auctionVars, bootVars, pacerVars>>

\* an unregister loop that gives up at the first failed call
CleanupUnregisterOrStop(sent) ==
    /\ Alive
    /\ shut.pc = "unregister"
    /\ LET i == shut.idx
       IN  /\ shut' = [shut EXCEPT
                 !.calls[i] = @ + 1,
                 !.failed = IF sent THEN @ ELSE @ \cup {i},
                 !.idx = i + 1,
                 !.pc = IF i < Len(agents) /\ sent THEN "unregister" ELSE "release"]
           /\ acs' = IF sent THEN acs \ {agents[i].Name} ELSE acs
    /\ UNCHANGED <<agents, crashed, mainPc, bootIdx, loopAgent, acsCalls, pstop,
                   auctionVars, pacerVars>>

\* one iteration of the loop of cleanup: Agent.UnregisterAgent on a copy of
\* agents[idx]; sent tells whether httpClient.Do returned without an error
CleanupUnregister(sent) ==
    /\ Alive
    /\ shut.pc = "unregister"
    /\ LET i == shut.idx
       IN  /\ shut' = [shut EXCEPT
                 !.calls[i] = @ + 1,
                 !.failed = IF sent THEN @ ELSE @ \cup {i},
                 !.idx = i + 1,
                 !.pc = IF i < Len(agents) THEN "unregister" ELSE "release"]
           /\ acs' = IF sent THEN acs \ {agents[i].Name} ELSE acs
    /\ UNCHANGED <<agents, crashed, mainPc, bootIdx, loopAgent, acsCalls, pstop,
                   auctionVars, pacerVars>>

\* a release loop that first lets the auctions in flight finish
CleanupDoneDraining ==
    /\ Alive
    /\ shut.pc = "release"
    /\ \A r \in RoundIds : rounds[r].pc # "bidding"
    /\ IF shut.wg > 0
       THEN /\ shut' = [shut EXCEPT !.wg = @ - 1]
            /\ UNCHANGED crashed
       ELSE /\ shut' = [shut EXCEPT !.exit = "wgPanic"]
            /\ crashed' = TRUE
    /\ UNCHANGED <<agents, pstop, auctionVars, bootVars, pacerVars>>

\* for { wg.Done() }: one iteration; a Done below zero panics
CleanupDone ==
    /\ Alive
    /\ shut.pc = "release"
    /\ IF shut.wg > 0
       THEN /\ shut' = [shut EXCEPT !.wg = @ - 1]
            /\ UNCHANGED crashed
       ELSE /\ shut' = [shut EXCEPT !.exit = "wgPanic"]
            /\ crashed' = TRUE
    /\ UNCHANGED <<agents, pstop, auctionVars, bootVars, pacerVars>>

\* wg.Wait() returns once the counter is zero, main returns, the process ends
MainReturn ==
    /\ Alive /\ mainPc = "serving"
    /\ shut.wg = 0
    /\ shut' = [shut EXCEPT !.exit = "main"]
    /\ UNCHANGED <<agents, crashed, pstop, auctionVars, bootVars, pacerVars>>

(***************************************************************************)
(* Specifications.                                                         *)
(***************************************************************************)
\* the state main reaches when every registration went through
InitServing ==
    /\ agents \in AgentConfigs
    /\ rounds = [r \in RoundIds |-> EmptyRound]
    /\ placed = [r \in RoundIds |-> << >>]
    /\ crashed = FALSE
    /\ statBids = 0
    /\ mainPc = "serving"
    /\ bootIdx = Len(agents)
    /\ loopAgent = [agents[Len(agents)] EXCEPT !.registered = TRUE,
                                               !.pacer = Len(agents)]
    /\ acs = { agents[i].Name : i \in AgentIdx }
    /\ acsCalls = [i \in AgentIdx |-> 1]
    /\ pacers = [i \in AgentIdx |->
                   [NoPacer EXCEPT !.state = "running", !.chan = i]]
    /\ banker = [i \in AgentIdx |-> 0]
    /\ shut = NoShutdown
    /\ pstop = NoStop

AuctionNext ==
    \/ \E r \in RoundIds, body \in Bodies : HandleParse(r, body)
    \/ \E r \in RoundIds : AgentDoBid(r)
    \/ \E r \in RoundIds : HandleRespond(r)

\* concurrent auction requests against the booted process
SpecAuction == InitServing /\ [][AuctionNext]_vars

BootNext ==
    \/ \E sent \in BOOLEAN : BootRegister(sent)
    \/ BootStartPacer

PacerNext ==
    \/ \E i \in AgentIdx : TickerFire(i)
    \/ \E i \in AgentIdx : PacerTick(i)
    \/ \E i \in AgentIdx, err \in BOOLEAN : ReportReturn(i, err)

\* boot, with the pacers running as soon as they are started
SpecPacer == Init /\ [][BootNext \/ PacerNext]_vars

LifeNext ==
    \/ BootNext
    \/ \E body \in Bodies : HandleParse(1, body)
    \/ AgentDoBid(1)
    \/ HandleRespond(1)

\* boot followed by one auction request
SpecLife == Init /\ [][LifeNext]_vars

ShutdownNext ==
    \/ Signal
    \/ CleanupStart
    \/ \E sent \in BOOLEAN : CleanupUnregister(sent)
    \/ CleanupDone
    \/ MainReturn

\* boot, one auction request, and the shutdown on a signal
SpecShutdown == Init /\ [][LifeNext \/ ShutdownNext]_vars

\* the goroutine of cleanup and main are scheduled, every unregister call
\* returns; nothing is assumed about signals or auction requests
ShutdownFairness ==
    /\ WF_vars(CleanupStart)
    /\ WF_vars(\E sent \in BOOLEAN : CleanupUnregister(sent))
    /\ WF_vars(CleanupDone)
    /\ WF_vars(MainReturn)

SpecShutdownFair == SpecShutdown /\ ShutdownFairness

ServeNext ==
    \/ \E body \in Bodies : HandleParse(1, body)
    \/ AgentDoBid(1)
    \/ HandleRespond(1)
    \/ PacerNext

\* one auction request while the pacers report to the banker
SpecServe == InitServing /\ [][ServeNext]_vars

StopNext ==
    \/ PacerNext
    \/ \E i \in AgentIdx : StopPacer(i)
    \/ \E i \in AgentIdx : PacerExit(i)

\* the running pacers and a caller of StopPacer
SpecStop == InitServing /\ [][StopNext]_vars

\* the select of a pacer goroutine takes a case that stays ready
SpecStopFair == SpecStop /\ \A i \in AgentIdx : WF_vars(PacerExit(i))

(***************************************************************************)
(* Vocabulary of the properties.                                           *)
(***************************************************************************)
Seat(r) == rounds[r].res.SeatBid[1].Bid

Req(r) == rounds[r].body.req

\* position of a configured agent in agents, by its unique name
AgentPos(name) == CHOOSE i \in AgentIdx : agents[i].Name = name

\* the request of round r was decoded and its response was built
Parsed(r) == rounds[r].built

\* round r has ended: it replied, or it took the process down
Ended(r) == rounds[r].pc \in {"done", "panic"}

\* the (agent, impression position) pairs that placed a bid in round r
PairsPlaced(r) ==
    { <<AgentPos(placed[r][k].agent), placed[r][k].pos>> : k \in 1..Len(placed[r]) }

\* the pairs for which the creative index of round r has an entry
PairsIndexed(r) ==
    { <<i, k>> \in AgentIdx \X (1..Len(Req(r).Imp)) :
        <<Req(r).Imp[k].ID, agents[i].Config.ExternalId>> \in DOMAIN rounds[r].ids }

(***************************************************************************)
(* C1: for a successfully parsed request the reply is "bid" (200 with a    *)
(* JSON body) exactly when the seat holds at least one bid; with no        *)
(* eligible agent the seat is empty and the reply is "no bid" (204, no     *)
(* body).                                                                  *)
(***************************************************************************)
C1_BidIffSeatNonEmpty ==
    \A r \in RoundIds :
        (Parsed(r) /\ rounds[r].pc = "done") =>
            /\ (rounds[r].status = 200 /\ rounds[r].respBody.kind = "json")
                   <=> Len(Seat(r)) > 0
            /\ (rounds[r].status = 204 /\ rounds[r].respBody = NoBody)
                   <=> Len(Seat(r)) = 0
            /\ PairsIndexed(r) = {} => rounds[r].status = 204

(***************************************************************************)
(* C2: a body that does not parse is answered 204 without a body; the      *)
(* index is not built, DoBid is not invoked, no agent changes and the      *)
(* handler does not fault.                                                 *)
(***************************************************************************)
C2_UnparsableBodyIsNoBid ==
    /\ [](\A r \in RoundIds :
            rounds[r].body.kind = "garbage" =>
                /\ rounds[r].pc = "done"
                /\ rounds[r].status = 204
                /\ rounds[r].respBody = NoBody
                /\ ~rounds[r].built /\ rounds[r].ids = EmptyIds
                /\ rounds[r].calls = 0 /\ placed[r] = << >>)
    /\ [][\A r \in RoundIds :
            (rounds[r].pc = "idle" /\ rounds'[r].body.kind = "garbage") =>
                /\ agents' = agents
                /\ crashed' = crashed
                /\ statBids' = statBids]_vars

C2_Witness ==
    \E r \in RoundIds : rounds[r].body.kind = "garbage" /\ rounds[r].status = 204

(***************************************************************************)
(* C3: no two bids placed by the same agent, in the same or in different   *)
(* answered auction rounds, carry the same bid identifier.                 *)
(***************************************************************************)
Answered(r) == rounds[r].pc = "done" /\ rounds[r].status = 200

C3_BidIdsUniquePerAgent ==
    \A r1, r2 \in RoundIds :
        (Answered(r1) /\ Answered(r2)) =>
            \A k1 \in 1..Len(Seat(r1)), k2 \in 1..Len(Seat(r2)) :
                (<<r1, k1>> # <<r2, k2>>
                 /\ placed[r1][k1].agent = placed[r2][k2].agent)
                    => Seat(r1)[k1].ID # Seat(r2)[k2].ID

(***************************************************************************)
(* C4: every bid in the seat shows a creative of its agent: the creative   *)
(* id is that of the creative at one of the candidate indices the index    *)
(* holds for (impression of the bid, external id of the agent), and that   *)
(* index lies within the agent's creative list.                            *)
(***************************************************************************)
C4_BidCreativeIsConfigured ==
    \A r \in RoundIds :
        Parsed(r) =>
            /\ Len(placed[r]) = Len(Seat(r))
            /\ \A k \in 1..Len(Seat(r)) :
                 LET a   == agents[AgentPos(placed[r][k].agent)]
                     imp == Req(r).Imp[placed[r][k].pos]
                     key == <<imp.ID, a.Config.ExternalId>>
                 IN  /\ Seat(r)[k].ImpID = imp.ID
                     /\ key \in DOMAIN rounds[r].ids
                     /\ rounds[r].ids[key].kind = "list"
                     /\ \E n \in 1..Len(rounds[r].ids[key].items) :
                          LET e == rounds[r].ids[key].items[n]
                          IN  /\ e.kind = "num"
                              /\ FloatToInt(e.val) >= 0
                              /\ FloatToInt(e.val) < Len(a.Config.Creatives)
                              /\ Seat(r)[k].CreativeID =
                                   Itoa(a.Config.Creatives[FloatToInt(e.val) + 1].Id)

C4_Witness ==
    \E r \in RoundIds :
        /\ Parsed(r) /\ Len(Seat(r)) = 2
        /\ Seat(r)[1].CreativeID = "7"
        /\ Seat(r)[2].CreativeID = "9"

(***************************************************************************)
(* C5: with N impressions and M agents the seat holds at most N x M bids,  *)
(* at most one per agent and impression.                                   *)
(***************************************************************************)
C5_AtMostOneBidPerAgentAndImp ==
    \A r \in RoundIds :
        Parsed(r) =>
            /\ Len(Seat(r)) <= Len(Req(r).Imp) * Len(agents)
            /\ Len(placed[r]) = Len(Seat(r))
            /\ \A k1, k2 \in 1..Len(placed[r]) :
                 (placed[r][k1].agent = placed[r][k2].agent
                  /\ placed[r][k1].pos = placed[r][k2].pos) => k1 = k2

C5_Witness ==
    \E r \in RoundIds :
        /\ rounds[r].pc = "done" /\ Parsed(r)
        /\ Len(Req(r).Imp) = MaxImps
        /\ Len(Seat(r)) = MaxImps * Len(agents)

(***************************************************************************)
(* C6: for a fixed request and configuration every run places bids for     *)
(* the same (agent, impression) pairs, namely the pairs that have an       *)
(* entry in the creative index.                                            *)
(***************************************************************************)
C6_SamePairsInEveryRun ==
    \A r1, r2 \in RoundIds :
        (Ended(r1) /\ Ended(r2) /\ Parsed(r1) /\ Parsed(r2)
         /\ rounds[r1].body = rounds[r2].body) =>
            /\ PairsPlaced(r1) = PairsPlaced(r2)
            /\ PairsPlaced(r1) = PairsIndexed(r1)

(***************************************************************************)
(* C7: the seat is ordered by agent configuration order, then by the       *)
(* order of the impressions in the request.                                *)
(***************************************************************************)
C7_SeatOrder ==
    \A r \in RoundIds :
        Parsed(r) =>
            /\ Len(placed[r]) = Len(Seat(r))
            /\ \A k \in 1..Len(Seat(r)) :
                 /\ Seat(r)[k].ImpID = Req(r).Imp[placed[r][k].pos].ID
                 /\ Seat(r)[k].Ext.externalId =
                        agents[AgentPos(placed[r][k].agent)].Config.ExternalId
            /\ \A k1, k2 \in 1..Len(Seat(r)) :
                 k1 < k2 =>
                    \/ AgentPos(placed[r][k1].agent) < AgentPos(placed[r][k2].agent)
                    \/ /\ placed[r][k1].agent = placed[r][k2].agent
                       /\ placed[r][k1].pos < placed[r][k2].pos

C7_Witness ==
    \E r \in RoundIds :
        /\ Parsed(r) /\ Len(Seat(r)) = 4
        /\ placed[r][2] = [agent |-> "a1", pos |-> 2]
        /\ placed[r][3] = [agent |-> "a2", pos |-> 1]

(***************************************************************************)
(* C8: the response of a parsed request carries the id of the request and  *)
(* holds exactly one seat, before and after every DoBid, and so does the   *)
(* body that is sent.                                                      *)
(***************************************************************************)
C8_ResponseIdAndOneSeat ==
    \A r \in RoundIds :
        Parsed(r) =>
            /\ rounds[r].res.ID = Req(r).ID
            /\ Len(rounds[r].res.SeatBid) = 1
            /\ rounds[r].respBody.kind = "json" => rounds[r].respBody.res = rounds[r].res

C8_Witness ==
    \E r1, r2 \in RoundIds :
        /\ rounds[r1].respBody.kind = "json" /\ rounds[r1].res.ID = "r2"
        /\ Parsed(r2) /\ rounds[r2].calls = 1 /\ rounds[r2].res.ID = "r1"

(***************************************************************************)
(* C9: while the pacer of an agent runs, every tick taken from its ticker  *)
(* starts exactly one balance report, whether or not earlier reports of    *)
(* the agent are still waiting for the banker or have failed; a pending    *)
(* tick can always be taken.                                               *)
(***************************************************************************)
C9_FireAndForget ==
    \A i \in AgentIdx :
        pacers[i].state = "running" =>
            /\ pacers[i].attempts + pacers[i].tickBuf + pacers[i].dropped
                   = pacers[i].fired
            /\ pacers[i].inflight + pacers[i].failed + banker[i] = pacers[i].attempts
            /\ pacers[i].tickBuf = 1 => ENABLED PacerTick(i)

C9_Witness ==
    \E i \in AgentIdx :
        /\ pacers[i].state = "running"
        /\ pacers[i].attempts = 2
        /\ pacers[i].inflight = 2

(***************************************************************************)
(* C10: an agent whose registration failed stays unregistered, the boot    *)
(* loop goes on (every agent gets one register attempt and a running       *)
(* pacer), and an auction round invokes DoBid on every agent and lets it   *)
(* bid, registered or not.                                                 *)
(***************************************************************************)
C10_RegisterFailureIsNotFatal ==
    /\ \A i \in AgentIdx :
         (acsCalls[i] >= 1 /\ agents[i].Name \notin acs) =>
            /\ ~agents[i].registered
            /\ bootIdx = i => ~loopAgent.registered
    /\ mainPc \in {"register", "startPacer"} => ~crashed
    /\ mainPc = "serving" =>
         \A i \in AgentIdx : acsCalls[i] = 1 /\ pacers[i].state = "running"
    /\ (rounds[1].pc = "done" /\ Parsed(1)) =>
         /\ rounds[1].calls = Len(agents)
         /\ PairsPlaced(1) = PairsIndexed(1)

C10_Witness ==
    /\ rounds[1].pc = "done" /\ Parsed(1)
    /\ "a1" \notin acs /\ "a2" \in acs
    /\ \E k \in 1..Len(placed[1]) : placed[1][k].agent = "a1"

(***************************************************************************)
(* C11: in the shutdown a signal starts, every configured agent gets       *)
(* exactly one unregister attempt, registered or not and whatever the      *)
(* outcome of the attempts before it; the shutdown does not release the    *)
(* wait group or end the process before the last attempt.                  *)
(***************************************************************************)
C11_OneUnregisterPerAgent ==
    /\ \A i \in AgentIdx : shut.calls[i] <= 1
    /\ shut.pc = "idle" => \A i \in AgentIdx : shut.calls[i] = 0
    /\ shut.pc = "unregister" =>
         \A i \in AgentIdx : shut.calls[i] = IF i < shut.idx THEN 1 ELSE 0
    /\ (shut.pc = "release" \/ shut.wg < WaitGroupAdds \/ shut.exit # "none") =>
         \A i \in AgentIdx : shut.calls[i] = 1

C11_Witness ==
    /\ shut.exit = "main"
    /\ shut.failed = {1, 2}
    /\ "a1" \in acs /\ "a2" \notin acs
    /\ shut.calls = [i \in AgentIdx |-> 1]

(***************************************************************************)
(* C12: once a signal has been received, and every unregister call         *)
(* returns, the process ends: the release loop of cleanup is never held    *)
(* up, not even by an auction in flight, and it does not run for ever.     *)
(***************************************************************************)
ProcessEnded == shut.exit # "none" \/ crashed

C12_ShutdownEndsTheProcess ==
    /\ (shut.sig = "pending") ~> ProcessEnded
    /\ []((shut.pc = "release" /\ ~ProcessEnded) => ENABLED CleanupDone)
    /\ [](shut.wg >= 0 /\ shut.wg <= WaitGroupAdds)

C12_Witness ==
    /\ shut.exit # "none"
    /\ rounds[1].pc = "bidding"
    /\ rounds[1].calls = 1

(***************************************************************************)
(* C13: handling an auction request sends nothing to the ACS or the        *)
(* banker, changes no agent's registered flag or pacer channel, and never  *)
(* waits for a registration or for a pacer: whatever the pacers are doing, *)
(* a request that is being handled has its next step to take.              *)
(***************************************************************************)
AuctionStep == rounds' # rounds \/ placed' # placed \/ statBids' # statBids

C13_AuctionIsLocal ==
    /\ [][AuctionStep =>
            UNCHANGED <<agents, loopAgent, acs, acsCalls, pacers, banker,
                        pstop, shut, mainPc, bootIdx>>]_vars
    /\ []((rounds[1].pc = "bidding" /\ ~crashed) =>
            ENABLED (AgentDoBid(1) \/ HandleRespond(1)))

C13_Witness ==
    /\ rounds[1].pc = "done" /\ rounds[1].status = 200
    /\ Len(rounds[1].res.SeatBid[1].Bid) > 0
    /\ \E i \in AgentIdx : pacers[i].inflight > 0
    /\ \E i \in AgentIdx : pacers[i].tickBuf > 0
    /\ acsCalls = [i \in AgentIdx |-> 1]

(***************************************************************************)
(* C14: the bid counter of an agent lives as long as the process: when no  *)
(* round is being handled, the counter of each agent in the configured     *)
(* list equals the number of bids that agent placed in all rounds so far,  *)
(* and the first bid of an agent in a round carries the number of bids it  *)
(* placed in the rounds handled before.                                    *)
(***************************************************************************)
BidsOf(i, r) == { k \in 1..Len(placed[r]) : placed[r][k].agent = agents[i].Name }

BidsOfIn(i, rs) == Cardinality({ rk \in rs \X (1..(MaxImps * Len(agents))) :
                                   rk[2] \in BidsOf(i, rk[1]) })

C14_BidCounterSpansRounds ==
    /\ (\A r \in RoundIds : rounds[r].pc # "bidding") =>
          \A i \in AgentIdx : agents[i].bidId = BidsOfIn(i, RoundIds)
    /\ \A r \in RoundIds :
          (Answered(r) /\ \A q \in 1..(r - 1) : Ended(q)) =>
             \A i \in AgentIdx :
                BidsOf(i, r) # {} =>
                   LET first == CHOOSE k \in BidsOf(i, r) :
                                   \A j \in BidsOf(i, r) : k <= j
                   IN  Seat(r)[first].ID = Itoa(BidsOfIn(i, 1..(r - 1)))

(***************************************************************************)
(* C15: the value DoBid returns is true exactly when the agent it was      *)
(* called on appended a bid in that call, whatever earlier agents          *)
(* appended to the seat.                                                   *)
(***************************************************************************)
Returned(r) == rounds[r].pc \in {"bidding", "done"} /\ rounds[r].calls >= 1

LastCalled(r) == rounds[r].calls

C15_TrueIffOwnBid ==
    \A r \in RoundIds :
        Returned(r) => (rounds[r].tmpOk <=> BidsOf(LastCalled(r), r) # {})

(***************************************************************************)
(* C16: an impression whose extension data is missing or of the wrong      *)
(* shape is skipped alone: every request that decodes gets its index, the  *)
(* index holds the entries of each well-formed impression of the request,  *)
(* and building it does not end the process.                               *)
(***************************************************************************)
NoIndex == [fault |-> FALSE, ids |-> EmptyIds]

WellFormed(imp) == ~IndexImp(imp, NoIndex).fault

Decoded(r) == rounds[r].pc # "idle" /\ rounds[r].body.kind = "request"

C16_MalformedExtSkipsOneImpression ==
    \A r \in RoundIds :
        Decoded(r) =>
            /\ Parsed(r)
            /\ \A k \in 1..Len(Req(r).Imp) :
                  WellFormed(Req(r).Imp[k]) =>
                     \A key \in DOMAIN IndexImp(Req(r).Imp[k], NoIndex).ids :
                        /\ key \in DOMAIN rounds[r].ids
                        /\ rounds[r].ids[key] = IndexImp(Req(r).Imp[k], NoIndex).ids[key]

(***************************************************************************)
(* C17: a creative index outside the agent's creative list, or an empty    *)
(* candidate list, costs that one bid only: DoBid goes on with the other   *)
(* impressions and agents, the handler never panics once the index is      *)
(* built, every agent is called, and the bids in the seat are answered.    *)
(***************************************************************************)
C17_BadCreativeIndexSkipsOneBid ==
    \A r \in RoundIds :
        Parsed(r) =>
            /\ rounds[r].pc # "panic"
            /\ ~crashed => ENABLED (AgentDoBid(r) \/ HandleRespond(r)) \/ Ended(r)
            /\ rounds[r].pc = "done" =>
                  /\ rounds[r].calls = Len(agents)
                  /\ Len(placed[r]) > 0 => rounds[r].respBody.res.SeatBid[1].Bid = Seat(r)

(***************************************************************************)
(* C18: when the process has left through the shutdown, every agent's      *)
(* pacer was started once and StopPacer was called once for it, on the     *)
(* channel the pacer goroutine of that agent waits on.                     *)
(***************************************************************************)
C18_PacersStoppedAtShutdown ==
    shut.exit # "none" =>
        \A i \in AgentIdx :
            /\ pacers[i].state # "none"
            /\ pstop.calls[i] = 1
            /\ pstop.closed[pacers[i].chan]

(***************************************************************************)
(* C19: StopPacer may be called again: a second call on an agent whose     *)
(* pacer was stopped already changes nothing, the process goes on and the  *)
(* pacer stays stopped.                                                    *)
(***************************************************************************)
C19_StopPacerIsIdempotent ==
    \A i \in AgentIdx :
        pstop.calls[i] >= 2 => (~crashed /\ pstop.closed[i])

(***************************************************************************)
(* C20: the goroutine of a pacer runs until its stop and no longer: it has *)
(* not returned while StopPacer was never called for it; once StopPacer    *)
(* was called it returns (or the process has ended), given that its select *)
(* takes a case that stays ready; after it returned it starts no report,   *)
(* while a report that is still out can come back.                         *)
(***************************************************************************)
Exited(i) == pacers[i].state = "exited"

C20_PacerRunsUntilStopped ==
    /\ [](\A i \in AgentIdx :
            Exited(i) => (pstop.calls[i] >= 1 /\ pstop.closed[pacers[i].chan]))
    /\ \A i \in AgentIdx : (pstop.calls[i] >= 1) ~> (Exited(i) \/ crashed)
    /\ [][\A i \in AgentIdx :
            Exited(i) => /\ pacers'[i].attempts = pacers[i].attempts
                         /\ pacers'[i].inflight <= pacers[i].inflight
                         /\ Exited(i)']_vars
    /\ [](\A i \in AgentIdx :
            (Exited(i) /\ pacers[i].inflight > 0 /\ ~crashed) =>
                ENABLED ReportReturn(i, FALSE))

C20_Witness ==
    \E i \in AgentIdx :
        /\ Exited(i)
        /\ pacers[i].attempts = MaxTicks
        /\ pacers[i].inflight = 1
        /\ banker[i] = MaxTicks - 1
        /\ pstop.calls[i] = 1
        /\ ~crashed

====
